---- MODULE Spec2Model ----
(***************************************************************************)
(* The release-to-recipe reconciliation scripts of another-brave-overlay:  *)
(* scripts/shared.py (version codec, recipe listing, test results) and     *)
(* scripts/update_ebuilds.py (release feed, Manifest reconciliation,       *)
(* update and prune operations).                                           *)
(*                                                                         *)
(* Text is modelled as sequences of one-character strings, so that the     *)
(* formatting of file names and the regular expression of extract_version  *)
(* are computed as the code computes them.  A Manifest is the sequence of  *)
(* its newline-terminated lines as readlines() returns them.               *)
(***************************************************************************)
EXTENDS Integers, Sequences, FiniteSets, TLC

VARIABLES
    files,      \* [channel -> [recipe file name -> content]]: the *.ebuild files of each directory
    manifest,   \* [channel -> sequence of lines]: the Manifest file of each directory
    pc,         \* the statement the running operation is at
    op,         \* the entry point invoked and its arguments
    env,        \* what the collaborators answer: the release feed and the jobs of the run
    run,        \* 1 in the first run of the operation, 2 in its second run
    start,      \* files and manifest as they were when each run started, run by run
    outcome,    \* files and manifest as each run that was followed by another left them
    err,        \* the exception that ended the operation, "" while none has
    um,         \* the frame of the update_manifest call, as the call left it
    rel,        \* the locals of get_latest_releases
    new_releases,   \* the (channel, version) items of new_releases still to add
    new_ebuilds,    \* [channel -> versions added], the result of add_ebuilds_for_new_releases
    channels,   \* the channels prune_ebuilds has still to visit
    pr,         \* the locals of prune_ebuilds in the channel visited
    pruned_ebuilds, \* [channel -> versions dropped], the result of prune_ebuilds
    codec       \* the versions extract_version and version_key are called for, and what they return

vars == <<files, manifest, pc, op, env, run, start, outcome, err, um, rel,
          new_releases, new_ebuilds, channels, pr, pruned_ebuilds, codec>>

\* the invocation and its history, which no statement of the program assigns,
\* and the record of the codec calls, which no operation on the repository assigns
ctx == <<op, env, run, start, outcome, codec>>

\* the locals of the update operation
updVars == <<rel, new_releases, new_ebuilds>>

\* the locals of the prune operation
pruneVars == <<channels, pr, pruned_ebuilds>>

----------------------------------------------------------------------------
(* Bounds of the model *)

\* the longest Manifest, in lines, a directory starts with
MaxLines == 2

----------------------------------------------------------------------------
(* Text helpers *)

Digits == {"0", "1", "2", "3", "4", "5", "6", "7", "8", "9"}

DigitValue(c) ==
    CASE c = "0" -> 0 [] c = "1" -> 1 [] c = "2" -> 2 [] c = "3" -> 3 [] c = "4" -> 4
      [] c = "5" -> 5 [] c = "6" -> 6 [] c = "7" -> 7 [] c = "8" -> 8 [] c = "9" -> 9

StartsWith(s, t) == Len(t) <= Len(s) /\ SubSeq(s, 1, Len(t)) = t

EndsWith(s, t) == Len(t) <= Len(s) /\ SubSeq(s, Len(s) - Len(t) + 1, Len(s)) = t

\* the positions at which t occurs in s
Occurrences(s, t) == {i \in 1..(Len(s) - Len(t) + 1) : SubSeq(s, i, i + Len(t) - 1) = t}

Max(S) == CHOOSE x \in S : \A y \in S : y <= x

Min(S) == CHOOSE x \in S : \A y \in S : x <= y

\* str.split(c) for a one-character separator
RECURSIVE Split(_, _)
Split(s, c) ==
    IF Occurrences(s, <<c>>) = {} THEN <<s>>
    ELSE LET i == Min(Occurrences(s, <<c>>))
         IN <<SubSeq(s, 1, i - 1)>> \o Split(SubSeq(s, i + 1, Len(s)), c)

\* the strings int() accepts among those the model's alphabet can form
IsInt(s) == Len(s) > 0 /\ \A i \in 1..Len(s) : s[i] \in Digits

RECURSIVE ToInt(_)
ToInt(s) ==
    IF Len(s) = 0 THEN 0
    ELSE 10 * ToInt(SubSeq(s, 1, Len(s) - 1)) + DigitValue(s[Len(s)])

BoundedSeq(S, n) == UNION {[1..k -> S] : k \in 0..n}

Range(s) == {s[i] : i \in 1..Len(s)}

----------------------------------------------------------------------------
(* shared.py: channels and names *)

CHANNELS_WITH_TITLE ==
    << <<"stable", <<"R", "e", "l", "e", "a", "s", "e", " ">> >>,
       <<"beta", <<"B", "e", "t", "a", " ">> >>,
       <<"nightly", <<"N", "i", "g", "h", "t", "l", "y", " ">> >> >>

CHANNELS == [i \in 1..Len(CHANNELS_WITH_TITLE) |-> CHANNELS_WITH_TITLE[i][1]]

Channels == Range(CHANNELS)

\* the title prefix CHANNELS_WITH_TITLE pairs with a channel
TitleOf(channel) ==
    CHANNELS_WITH_TITLE[CHOOSE i \in 1..Len(CHANNELS) : CHANNELS[i] = channel][2]

\* the characters of a channel's name, as the f-string of make_name_from_channel writes them
ChannelText(channel) ==
    CASE channel = "stable" -> <<"s", "t", "a", "b", "l", "e">>
      [] channel = "beta" -> <<"b", "e", "t", "a">>
      [] channel = "nightly" -> <<"n", "i", "g", "h", "t", "l", "y">>

make_name_from_channel(channel) ==
    LET suffix == IF channel = "stable" THEN <<>> ELSE <<"-">> \o ChannelText(channel)
    IN <<"b", "r", "a", "v", "e", "-", "b", "r", "o", "w", "s", "e", "r">> \o suffix

----------------------------------------------------------------------------
(* shared.py: the version codec *)

\* the characters the class [\d\.-r] of _VERSION_REGEX matches: inside the
\* brackets ".-r" is the range from "." to "r", which holds the digits and
\* does not hold "-" (the grave accent, also in the range, cannot be written
\* as a string here and occurs in no text of the model)
VERSION_CLASS ==
    Digits \cup
    {".", "/", ":", ";", "<", "=", ">", "?", "@",
     "A", "B", "C", "D", "E", "F", "G", "H", "I", "J", "K", "L", "M",
     "N", "O", "P", "Q", "R", "S", "T", "U", "V", "W", "X", "Y", "Z",
     "[", "\\", "]", "^", "_",
     "a", "b", "c", "d", "e", "f", "g", "h", "i", "j", "k", "l", "m",
     "n", "o", "p", "q", "r"}

\* the value standing for a raised exception where a text or a key is expected
Raised == <<>>

\* _VERSION_REGEX.search(s).group(0): the leftmost "-", digit, class character,
\* extended greedily over class characters; Raised when there is no match
VERSION_REGEX_search(s) ==
    LET starts == {i \in 1..(Len(s) - 2) :
                      /\ s[i] = "-"
                      /\ s[i + 1] \in Digits
                      /\ s[i + 2] \in VERSION_CLASS}
    IN IF starts = {} THEN Raised
       ELSE LET i == Min(starts)
                last == Max({k \in (i + 2)..Len(s) :
                                \A j \in (i + 2)..k : s[j] \in VERSION_CLASS})
            IN SubSeq(s, i, last)

EBUILD_EXT == <<".", "e", "b", "u", "i", "l", "d">>

\* os.path.basename
basename(path) ==
    IF Occurrences(path, <<"/">>) = {} THEN path
    ELSE SubSeq(path, Max(Occurrences(path, <<"/">>)) + 1, Len(path))

extract_version(path) ==
    LET filename == basename(path)
    IN IF ~EndsWith(filename, EBUILD_EXT) THEN Raised
       ELSE LET base_name == SubSeq(filename, 1, Max(Occurrences(filename, EBUILD_EXT)) - 1)
                match == VERSION_REGEX_search(base_name)
            IN IF match = Raised THEN Raised ELSE Tail(match)

version_key(path) ==
    LET version_full == extract_version(path)
        cuts == Occurrences(version_full, <<"-", "r">>)
        version == IF cuts = {} THEN version_full
                   ELSE SubSeq(version_full, 1, Max(cuts) - 1)
        revision == IF cuts = {} THEN <<"0">>
                    ELSE SubSeq(version_full, Max(cuts) + 2, Len(version_full))
        parts == Split(version, ".")
    IN IF \/ version_full = Raised
          \/ ~IsInt(revision)
          \/ \E i \in 1..Len(parts) : ~IsInt(parts[i])
       THEN Raised
       ELSE [i \in 1..Len(parts) |-> ToInt(parts[i])] \o <<ToInt(revision)>>

\* the order of Python lists of integers
KeyLess(a, b) ==
    \/ \E i \in 1..Len(a) :
          /\ i <= Len(b)
          /\ a[i] < b[i]
          /\ \A j \in 1..(i - 1) : a[j] = b[j]
    \/ /\ Len(a) < Len(b)
       /\ \A j \in 1..Len(a) : a[j] = b[j]

----------------------------------------------------------------------------
(* update_ebuilds.py: file names *)

BRAVE_SOURCE_FILE(name, version) ==
    name \o <<"_">> \o version \o <<"_", "a", "m", "d", "6", "4", ".", "d", "e", "b">>

EBUILD_FILE(name, version) == name \o <<"-">> \o version \o EBUILD_EXT

MANIFEST_HASH_ALGOS == <<"BLAKE2B", "SHA512">>

----------------------------------------------------------------------------
(* shared.py: get_ebuilds *)

\* sorted(glob(...), key=version_key) raises when a key cannot be computed
get_ebuilds_raises(channel) ==
    \E f \in DOMAIN files[channel] : version_key(f) = Raised

\* the lists sorted(glob(...), key=version_key) can return: glob lists the
\* directory in arbitrary order and the sort is stable, so files of equal
\* key come in any order
get_ebuilds(channel) ==
    LET S == DOMAIN files[channel]
        n == Cardinality(S)
    IN {s \in [1..n -> S] :
           /\ \A i, j \in 1..n : i /= j => s[i] /= s[j]
           /\ \A i, j \in 1..n : i < j => ~KeyLess(version_key(s[j]), version_key(s[i]))}

----------------------------------------------------------------------------
(* The Manifest *)

\* a line whose first word is DIST: the distfile named and the size and digests after it
DistLine(file, sums) == [kind |-> "DIST", file |-> file, sums |-> sums]

\* a line whose first word is not DIST
OtherLine == [kind |-> "EBUILD", file |-> <<>>, sums |-> <<"recorded">>]

\* the line update_manifest appends for a downloaded distfile: its size and
\* one digest for each algorithm
NewDistLine(file) == DistLine(file, <<"size">> \o MANIFEST_HASH_ALGOS)

\* the distfiles a sequence of lines names on its DIST lines
DistFiles(lines) == {lines[i].file : i \in {j \in 1..Len(lines) : lines[j].kind = "DIST"}}

NoFrame == [dir |-> "", name |-> <<>>, new_lines |-> <<>>, pending |-> {}, ret |-> ""]

\* the frame of a call update_manifest(ebuild_dir, name) that returns to ret
Call_update_manifest(dir, name, ret) ==
    [NoFrame EXCEPT !.dir = dir, !.name = name, !.ret = ret]

\* the versions of the recipe files of a directory
DirVersions(dir) == {extract_version(e) : e \in DOMAIN files[dir]}

\* keep_line without the test of the DIST lines: every line is kept
keep_line_all(line, sources_by_filename) == TRUE

\* keep_line without the else branch: only the DIST lines of recipes are kept
keep_line_dist_only(line, sources_by_filename) ==
    line.kind = "DIST" /\ line.file \in sources_by_filename

\* the loop over the lines of the Manifest: a DIST line is kept when it names
\* the distfile of a recipe, any other line is kept
keep_line(line, sources_by_filename) ==
    line.kind = "DIST" => line.file \in sources_by_filename

\* update_manifest up to the end of the reading of the Manifest: the versions
\* of the *.ebuild files, the lines kept and the versions left without a line
update_manifest_read ==
    /\ pc = "update_manifest"
    /\ LET versions == DirVersions(um.dir)
           sources_by_filename == {BRAVE_SOURCE_FILE(um.name, v) : v \in versions}
           lines == manifest[um.dir]
           keep(line) == keep_line(line, sources_by_filename)
           versions_in_manifest ==
               {v \in versions : BRAVE_SOURCE_FILE(um.name, v) \in DistFiles(lines)}
       IN IF Raised \in versions
          THEN /\ pc' = "error"
               /\ err' = "ValueError"
               /\ um' = um
          ELSE /\ pc' = "um_fetch"
               /\ err' = err
               /\ um' = [um EXCEPT !.new_lines = SelectSeq(lines, keep),
                                   !.pending = versions \ versions_in_manifest]
    /\ UNCHANGED <<files, manifest, ctx, updVars, pruneVars>>

\* update_manifest_download writing the Manifest as each line is computed
update_manifest_download_writing ==
    /\ pc = "um_fetch"
    /\ \E version \in um.pending :
          /\ um' = [um EXCEPT
                       !.new_lines = Append(@, NewDistLine(BRAVE_SOURCE_FILE(um.name, version))),
                       !.pending = @ \ {version}]
          /\ manifest' = [manifest EXCEPT ![um.dir] = um'.new_lines]
    /\ UNCHANGED <<files, pc, err, ctx, updVars, pruneVars>>

\* one turn of the loop over versions - versions_in_manifest whose download
\* succeeds: the DIST line of the version is appended to new_lines
update_manifest_download ==
    /\ pc = "um_fetch"
    /\ \E version \in um.pending :
          um' = [um EXCEPT
                    !.new_lines = Append(@, NewDistLine(BRAVE_SOURCE_FILE(um.name, version))),
                    !.pending = @ \ {version}]
    /\ UNCHANGED <<files, manifest, pc, err, ctx, updVars, pruneVars>>

\* requests.get, raise_for_status or iter_content raises: the call ends there
update_manifest_download_fails ==
    /\ pc = "um_fetch"
    /\ um.pending /= {}
    /\ pc' = "error"
    /\ err' = "RequestException"
    /\ UNCHANGED <<files, manifest, um, ctx, updVars, pruneVars>>

\* update_manifest_write removing as well the recipes whose DIST line it appended
update_manifest_write_unlinking ==
    /\ pc = "um_fetch"
    /\ um.pending = {}
    /\ manifest' = [manifest EXCEPT ![um.dir] = um.new_lines]
    /\ files' = [files EXCEPT ![um.dir] =
                     [f \in {e \in DOMAIN files[um.dir] :
                                 NewDistLine(BRAVE_SOURCE_FILE(um.name, extract_version(e)))
                                     \notin Range(um.new_lines)} |-> files[um.dir][f]]]
    /\ pc' = um.ret
    /\ UNCHANGED <<um, err, ctx, updVars, pruneVars>>

\* the loop is over: the Manifest is opened for writing and new_lines written
update_manifest_write ==
    /\ pc = "um_fetch"
    /\ um.pending = {}
    /\ manifest' = [manifest EXCEPT ![um.dir] = um.new_lines]
    /\ pc' = um.ret
    /\ UNCHANGED <<files, um, err, ctx, updVars, pruneVars>>

update_manifest ==
    \/ update_manifest_read
    \/ update_manifest_download
    \/ update_manifest_download_fails
    \/ update_manifest_write

\* update_manifest is called a second time, in another run of the interpreter,
\* on the directory as it was before the first call
update_manifest_again ==
    /\ pc = "done"
    /\ op.kind = "update_manifest"
    /\ run = 1
    /\ run' = 2
    /\ outcome' = Append(outcome, [files |-> files, manifest |-> manifest])
    /\ start' = Append(start, start[1])
    /\ files' = start[1].files
    /\ manifest' = start[1].manifest
    /\ pc' = "update_manifest"
    /\ um' = Call_update_manifest(um.dir, um.name, um.ret)
    /\ UNCHANGED <<op, env, codec, err, updVars, pruneVars>>

----------------------------------------------------------------------------
(* shared.py: collect_test_results *)

JOB_NAME_PREFIX == <<"T", "e", "s", "t", " ", "e", "b", "u", "i", "l", "d", " ", "(">>

\* the name of the job that tests a recipe of a channel, as the workflow writes it
JobName(ebuild_path, channel_text) ==
    JOB_NAME_PREFIX \o ebuild_path \o <<")", " ", "[">> \o channel_text \o <<"]">>

\* _JOB_NAME_RE.match(job_name).groups(), Raised when the name does not match:
\* the first group is lazy, so it ends at the first ") [" that leaves a
\* non-empty second group before the closing "]" at the end of the name
JOB_NAME_RE_match(job_name) ==
    LET n == Len(job_name)
        p == Len(JOB_NAME_PREFIX)
        seps == {q \in Occurrences(job_name, <<")", " ", "[">>) : q > p + 1 /\ q + 3 < n}
    IN IF StartsWith(job_name, JOB_NAME_PREFIX) /\ job_name[n] = "]" /\ seps /= {}
       THEN <<SubSeq(job_name, p + 1, Min(seps) - 1), SubSeq(job_name, Min(seps) + 3, n - 1)>>
       ELSE Raised

\* the channel a text names; a text naming none of CHANNELS stands for a
\* channel whose directory does not exist
ChannelOfText(text) ==
    IF \E c \in Channels : ChannelText(c) = text
    THEN CHOOSE c \in Channels : ChannelText(c) = text
    ELSE "other"

\* test_results[channel] = value on a dict kept as the sequence of its items:
\* a new key goes last, a key already there keeps its place
DictPut(items, item) ==
    IF \E i \in 1..Len(items) : items[i].channel = item.channel
    THEN [i \in 1..Len(items) |->
             IF items[i].channel = item.channel THEN item ELSE items[i]]
    ELSE Append(items, item)

\* the items of the dict collect_test_results returns for the jobs of the run
RECURSIVE collect_test_results(_)
collect_test_results(jobs) ==
    IF jobs = <<>> THEN <<>>
    ELSE LET before == collect_test_results(SubSeq(jobs, 1, Len(jobs) - 1))
             job == jobs[Len(jobs)]
             match == JOB_NAME_RE_match(job.name)
         IN IF match = Raised THEN before
            ELSE DictPut(before, [channel |-> ChannelOfText(match[2]),
                                  conclusion |-> job.conclusion,
                                  ebuild_path |-> match[1],
                                  version |-> extract_version(match[1])])

\* extract_version raises on the path of a job whose name matches
collect_test_results_raises(jobs) ==
    \E i \in 1..Len(jobs) :
        /\ JOB_NAME_RE_match(jobs[i].name) /= Raised
        /\ extract_version(JOB_NAME_RE_match(jobs[i].name)[1]) = Raised

----------------------------------------------------------------------------
(* update_ebuilds.py: prune_ebuilds *)

NoPrune == [ebuilds |-> <<>>, i |-> 0, dropped |-> <<>>]

\* eligible_channels without the gate: every channel is pruned
eligible_channels_all(successful_channels_only, jobs) == CHANNELS

\* the channels to prune: those whose test result is "success" in the order
\* of the dict, or CHANNELS
eligible_channels(successful_channels_only, jobs) ==
    IF successful_channels_only
    THEN LET test_results == collect_test_results(jobs)
             ok == SelectSeq(test_results, LAMBDA r : r.conclusion = "success")
         IN [i \in 1..Len(ok) |-> ok[i].channel]
    ELSE CHANNELS

prune_ebuilds_begin ==
    /\ pc = "prune_ebuilds"
    /\ IF op.successful_channels_only /\ collect_test_results_raises(env.jobs)
       THEN /\ pc' = "error"
            /\ err' = "ValueError"
            /\ channels' = channels
       ELSE /\ pc' = "prune_loop"
            /\ err' = err
            /\ channels' = eligible_channels(op.successful_channels_only, env.jobs)
    /\ UNCHANGED <<files, manifest, um, pr, pruned_ebuilds, ctx, updVars>>

\* ebuilds_to_drop without the slice: every recipe of the list is removed
ebuilds_to_drop_all(ebuilds) == ebuilds

\* the recipes the loop of prune_ebuilds removes from the sorted list
ebuilds_to_drop(ebuilds) == SubSeq(ebuilds, 1, Len(ebuilds) - 1)

\* the head of the loop over the channels: the recipes of the channel are listed
prune_channel ==
    /\ pc = "prune_loop"
    /\ channels /= <<>>
    /\ LET channel == Head(channels)
       IN IF channel \in Channels /\ get_ebuilds_raises(channel)
          THEN /\ pc' = "error"
               /\ err' = "ValueError"
               /\ UNCHANGED <<channels, pr>>
          ELSE \E ebuilds \in (IF channel \in Channels THEN get_ebuilds(channel) ELSE {<<>>}) :
                  IF Len(ebuilds) > 1
                  THEN /\ pc' = "prune_unlink"
                       /\ pr' = [ebuilds |-> ebuilds, i |-> 1, dropped |-> <<>>]
                       /\ UNCHANGED <<channels, err>>
                  ELSE /\ channels' = Tail(channels)
                       /\ UNCHANGED <<pc, pr, err>>
    /\ UNCHANGED <<files, manifest, um, pruned_ebuilds, ctx, updVars>>

\* one turn of the loop over ebuilds[:-1]: the recipe is removed and its version noted
prune_unlink ==
    /\ pc = "prune_unlink"
    /\ pr.i <= Len(ebuilds_to_drop(pr.ebuilds))
    /\ LET channel == Head(channels)
           ebuild == pr.ebuilds[pr.i]
           version == extract_version(ebuild)
       IN /\ files' = [files EXCEPT ![channel] =
                          [f \in DOMAIN files[channel] \ {ebuild} |-> files[channel][f]]]
          /\ pr' = [pr EXCEPT !.i = @ + 1, !.dropped = Append(@, version)]
          /\ pruned_ebuilds' = [pruned_ebuilds EXCEPT ![channel] = Append(@, version)]
    /\ UNCHANGED <<manifest, pc, err, um, channels, ctx, updVars>>

\* after the loop: update_manifest(ebuild_dir, name) is called
prune_update_manifest ==
    /\ pc = "prune_unlink"
    /\ pr.i > Len(ebuilds_to_drop(pr.ebuilds))
    /\ pc' = "update_manifest"
    /\ um' = Call_update_manifest(Head(channels), make_name_from_channel(Head(channels)),
                                  "prune_commit")
    /\ UNCHANGED <<files, manifest, err, pruneVars, ctx, updVars>>

\* update_manifest has returned: the change is committed and the loop goes on
prune_commit ==
    /\ pc = "prune_commit"
    /\ pc' = "prune_loop"
    /\ channels' = Tail(channels)
    /\ UNCHANGED <<files, manifest, err, um, pr, pruned_ebuilds, ctx, updVars>>

\* the loop over the channels is over: pruned_ebuilds is returned
prune_return ==
    /\ pc = "prune_loop"
    /\ channels = <<>>
    /\ pc' = "done"
    /\ UNCHANGED <<files, manifest, err, um, pruneVars, ctx, updVars>>

prune_ebuilds ==
    \/ prune_ebuilds_begin
    \/ prune_channel
    \/ prune_unlink
    \/ prune_update_manifest
    \/ prune_commit
    \/ prune_return

----------------------------------------------------------------------------
(* The release feed collaborator *)

\* the releases a page of the feed lists
PerPage == 2

\* the releases of the page at url: the feed env.feed lists its releases
\* PerPage to a page, the page at BRAVE_RELEASES being page 1
PageReleases(url) ==
    LET n == Len(env.feed.releases)
        first == (url - 1) * PerPage + 1
        last == IF url * PerPage < n THEN url * PerPage ELSE n
    IN SubSeq(env.feed.releases, first, last)

\* response.links.get("next", {}).get("url"): 0 stands for None; the last page
\* links to no page, or back to the first page when the feed's links cycle
NextLink(url) ==
    IF url * PerPage < Len(env.feed.releases) THEN url + 1
    ELSE IF env.feed.cycle THEN 1 ELSE 0

BRAVE_RELEASES == 1

----------------------------------------------------------------------------
(* update_ebuilds.py: get_latest_releases *)

MAX_PAGES == 5

\* None, and the empty text, which "not releases[channel]" takes alike
None == <<>>

NoRel == [url |-> 0, page |-> 0, response |-> 0, i |-> 0,
          releases |-> [c \in Channels |-> None], releases_found |-> 0]

\* accepts without the test of the assets: the title alone decides
accepts_by_title(release, channel, title) == StartsWith(release.name, title)

\* the test a release passes to become the release of a channel: its title
\* starts with the channel's prefix and its assets hold the source file
accepts(release, channel, title) ==
    /\ StartsWith(release.name, title)
    /\ BRAVE_SOURCE_FILE(make_name_from_channel(channel), Tail(release.tag_name))
           \in release.assets

\* the loop over CHANNELS_WITH_TITLE for one release, from its k-th turn on:
\* the releases and releases_found it leaves, and whether the assert raised
RECURSIVE scan_channels(_, _, _, _)
scan_channels(release, k, releases, found) ==
    IF k > Len(CHANNELS_WITH_TITLE)
    THEN [releases |-> releases, releases_found |-> found, raised |-> FALSE]
    ELSE LET channel == CHANNELS_WITH_TITLE[k][1]
             title == CHANNELS_WITH_TITLE[k][2]
         IN IF releases[channel] = None /\ StartsWith(release.name, title)
            THEN IF release.tag_name = <<>> \/ Head(release.tag_name) /= "v"
                 THEN [releases |-> releases, releases_found |-> found, raised |-> TRUE]
                 ELSE IF accepts(release, channel, title)
                      THEN scan_channels(release, k + 1,
                               [releases EXCEPT ![channel] = Tail(release.tag_name)],
                               found + 1)
                      ELSE scan_channels(release, k + 1, releases, found)
            ELSE scan_channels(release, k + 1, releases, found)

get_latest_releases_begin ==
    /\ pc = "update_ebuilds"
    /\ pc' = "fetch"
    /\ rel' = [NoRel EXCEPT !.url = BRAVE_RELEASES]
    /\ UNCHANGED <<files, manifest, err, um, new_releases, new_ebuilds, pruneVars, ctx>>

\* the head of the while loop when it goes on: gh_get(url) answers
fetch_page ==
    /\ pc = "fetch"
    /\ rel.url /= 0 /\ rel.page < MAX_PAGES
    /\ pc' = "scan"
    /\ rel' = [rel EXCEPT !.response = rel.url, !.i = 1]
    /\ UNCHANGED <<files, manifest, err, um, new_releases, new_ebuilds, pruneVars, ctx>>

\* gh_get(url) raises: requests.get or raise_for_status failed
fetch_page_fails ==
    /\ pc = "fetch"
    /\ rel.url /= 0 /\ rel.page < MAX_PAGES
    /\ pc' = "error"
    /\ err' = "RequestException"
    /\ UNCHANGED <<files, manifest, um, updVars, pruneVars, ctx>>

\* scan_release without the two breaks: the loops go on when every channel
\* has its release
scan_release_exhausting ==
    /\ pc = "scan"
    /\ rel.i <= Len(PageReleases(rel.response))
    /\ LET release == PageReleases(rel.response)[rel.i]
           r == scan_channels(release, 1, rel.releases, rel.releases_found)
       IN IF r.raised
          THEN /\ pc' = "error"
               /\ err' = "AssertionError"
               /\ rel' = rel
          ELSE /\ err' = err
               /\ rel' = [rel EXCEPT !.releases = r.releases,
                                     !.releases_found = r.releases_found,
                                     !.i = @ + 1]
               /\ pc' = "scan"
    /\ UNCHANGED <<files, manifest, um, new_releases, new_ebuilds, pruneVars, ctx>>

\* one turn of the loop over response.json(): the release is tried for each
\* channel; the loops are left when every channel has its release
scan_release ==
    /\ pc = "scan"
    /\ rel.i <= Len(PageReleases(rel.response))
    /\ LET release == PageReleases(rel.response)[rel.i]
           r == scan_channels(release, 1, rel.releases, rel.releases_found)
       IN IF r.raised
          THEN /\ pc' = "error"
               /\ err' = "AssertionError"
               /\ rel' = rel
          ELSE /\ err' = err
               /\ rel' = [rel EXCEPT !.releases = r.releases,
                                     !.releases_found = r.releases_found,
                                     !.i = @ + 1]
               /\ pc' = IF r.releases_found = Cardinality(DOMAIN rel.releases)
                        THEN "resolved" ELSE "scan"
    /\ UNCHANGED <<files, manifest, um, new_releases, new_ebuilds, pruneVars, ctx>>

\* next_page without the count of the pages
next_page_uncounted ==
    /\ pc = "scan"
    /\ rel.i > Len(PageReleases(rel.response))
    /\ pc' = "fetch"
    /\ rel' = [rel EXCEPT !.url = NextLink(rel.response)]
    /\ UNCHANGED <<files, manifest, err, um, new_releases, new_ebuilds, pruneVars, ctx>>

\* the page is scanned and some channel has no release: the next page is the
\* one the response links to
next_page ==
    /\ pc = "scan"
    /\ rel.i > Len(PageReleases(rel.response))
    /\ pc' = "fetch"
    /\ rel' = [rel EXCEPT !.url = NextLink(rel.response), !.page = @ + 1]
    /\ UNCHANGED <<files, manifest, err, um, new_releases, new_ebuilds, pruneVars, ctx>>

\* releases_incomplete without the raise: the releases found are returned
releases_incomplete_returning ==
    /\ pc = "fetch"
    /\ ~(rel.url /= 0 /\ rel.page < MAX_PAGES)
    /\ pc' = "resolved"
    /\ UNCHANGED <<files, manifest, err, um, updVars, pruneVars, ctx>>

\* the while loop ends on its condition: there is no next page or MAX_PAGES
\* pages were fetched
releases_incomplete ==
    /\ pc = "fetch"
    /\ ~(rel.url /= 0 /\ rel.page < MAX_PAGES)
    /\ IF rel.releases_found /= Cardinality(DOMAIN rel.releases)
       THEN pc' = "error" /\ err' = "RuntimeError"
       ELSE pc' = "resolved" /\ err' = err
    /\ UNCHANGED <<files, manifest, um, updVars, pruneVars, ctx>>

get_latest_releases ==
    \/ get_latest_releases_begin
    \/ fetch_page
    \/ fetch_page_fails
    \/ scan_release
    \/ next_page
    \/ releases_incomplete

----------------------------------------------------------------------------
(* update_ebuilds.py: get_new_releases, add_ebuilds_for_new_releases, update_ebuilds *)

\* is_new_release without the test of the recipes: every release is new
is_new_release_always(channel, version) == TRUE

\* whether the version resolved for a channel counts as a new release
is_new_release(channel, version) == version \notin DirVersions(channel)

\* get_new_releases(releases): the items of new_releases, in the order of releases
get_new_releases ==
    /\ pc = "resolved"
    /\ IF \E c \in Channels : get_ebuilds_raises(c)
       THEN /\ pc' = "error"
            /\ err' = "ValueError"
            /\ UNCHANGED <<new_releases, new_ebuilds>>
       ELSE /\ pc' = "add_loop"
            /\ err' = err
            /\ new_releases' =
                   LET new == SelectSeq(CHANNELS,
                                  LAMBDA c : is_new_release(c, rel.releases[c]))
                   IN [i \in 1..Len(new) |-> <<new[i], rel.releases[new[i]]>>]
            /\ new_ebuilds' = [c \in Channels |-> <<>>]
    /\ UNCHANGED <<files, manifest, um, rel, pruneVars, ctx>>

\* shutil.copy(latest_ebuild, new_ebuild) on the files of a directory: the
\* file new_ebuild holds what latest_ebuild holds, whether it existed or not
copy(dir, latest_ebuild, new_ebuild) ==
    [f \in DOMAIN dir \cup {new_ebuild} |->
        IF f = new_ebuild THEN dir[latest_ebuild] ELSE dir[f]]

\* add_ebuild without the call of update_manifest: the recipe is copied and
\* the loop goes on to note the version
add_ebuild_deferring ==
    /\ pc = "add_loop"
    /\ new_releases /= <<>>
    /\ LET channel == Head(new_releases)[1]
           version == Head(new_releases)[2]
           name == make_name_from_channel(channel)
           new_ebuild == EBUILD_FILE(name, version)
       IN IF get_ebuilds_raises(channel) \/ DOMAIN files[channel] = {}
          THEN /\ pc' = "error"
               /\ err' = IF get_ebuilds_raises(channel) THEN "ValueError" ELSE "IndexError"
               /\ UNCHANGED <<files, um>>
          ELSE \E ebuilds \in get_ebuilds(channel) :
                  LET latest_ebuild == ebuilds[Len(ebuilds)]
                  IN IF latest_ebuild = new_ebuild
                     THEN /\ pc' = "error"
                          /\ err' = "SameFileError"
                          /\ UNCHANGED <<files, um>>
                     ELSE /\ files' = [files EXCEPT ![channel] =
                                          copy(files[channel], latest_ebuild, new_ebuild)]
                          /\ pc' = "add_commit"
                          /\ um' = um
                          /\ err' = err
    /\ UNCHANGED <<manifest, updVars, pruneVars, ctx>>

\* one turn of the loop over new_releases up to the call of update_manifest
add_ebuild ==
    /\ pc = "add_loop"
    /\ new_releases /= <<>>
    /\ LET channel == Head(new_releases)[1]
           version == Head(new_releases)[2]
           name == make_name_from_channel(channel)
           new_ebuild == EBUILD_FILE(name, version)
       IN IF get_ebuilds_raises(channel) \/ DOMAIN files[channel] = {}
          THEN /\ pc' = "error"
               /\ err' = IF get_ebuilds_raises(channel) THEN "ValueError" ELSE "IndexError"
               /\ UNCHANGED <<files, um>>
          ELSE \E ebuilds \in get_ebuilds(channel) :
                  LET latest_ebuild == ebuilds[Len(ebuilds)]
                  IN IF latest_ebuild = new_ebuild
                     THEN /\ pc' = "error"
                          /\ err' = "SameFileError"
                          /\ UNCHANGED <<files, um>>
                     ELSE /\ files' = [files EXCEPT ![channel] =
                                          copy(files[channel], latest_ebuild, new_ebuild)]
                          /\ pc' = "update_manifest"
                          /\ um' = Call_update_manifest(channel, name, "add_commit")
                          /\ err' = err
    /\ UNCHANGED <<manifest, updVars, pruneVars, ctx>>

\* update_manifest has returned: the version is noted and the change committed
add_commit ==
    /\ pc = "add_commit"
    /\ pc' = "add_loop"
    /\ new_ebuilds' = [new_ebuilds EXCEPT ![Head(new_releases)[1]] =
                          Append(@, Head(new_releases)[2])]
    /\ new_releases' = Tail(new_releases)
    /\ UNCHANGED <<files, manifest, err, um, rel, pruneVars, ctx>>

\* the loop over new_releases is over: new_ebuilds is returned
add_return ==
    /\ pc = "add_loop"
    /\ new_releases = <<>>
    /\ pc' = "done"
    /\ UNCHANGED <<files, manifest, err, um, updVars, pruneVars, ctx>>

add_ebuilds_for_new_releases ==
    \/ add_ebuild
    \/ add_commit
    \/ add_return

\* update_ebuilds is run again after a run that completed, the feed being the same
update_ebuilds_again ==
    /\ pc = "done"
    /\ op.kind = "update_ebuilds"
    /\ run = 1
    /\ run' = 2
    /\ start' = Append(start, [files |-> files, manifest |-> manifest])
    /\ outcome' = Append(outcome, [files |-> files, manifest |-> manifest])
    /\ pc' = "update_ebuilds"
    /\ UNCHANGED <<files, manifest, op, env, codec, err, um, updVars, pruneVars>>

update_ebuilds ==
    \/ get_latest_releases
    \/ get_new_releases
    \/ add_ebuilds_for_new_releases
    \/ update_ebuilds_again

----------------------------------------------------------------------------
(* The states a run starts from *)

\* the version texts recipe files are named for
V10 == <<"1", ".", "0">>

V11 == <<"1", ".", "1">>

V11r1 == <<"1", ".", "1", "-", "r", "1">>

V12 == <<"1", ".", "2">>

FileVersions == {V10, V11, V11r1}

ManifestVersions == <<V10, V11, V12>>

FeedVersions == {V11, V12}

\* what the recipe file named for a version holds when a run starts
ContentOf(version) ==
    CASE version = V10 -> "ebuild A"
      [] version = V11 -> "ebuild B"
      [] OTHER -> "ebuild C"

\* the directory of a channel that holds the recipes named for the versions T
DirOf(channel, T) ==
    LET name == make_name_from_channel(channel)
    IN [f \in {EBUILD_FILE(name, v) : v \in T} |->
           ContentOf(CHOOSE v \in T : EBUILD_FILE(name, v) = f)]

\* the DIST line a Manifest of the channel holds for a version
RecordedLine(channel, version) ==
    DistLine(BRAVE_SOURCE_FILE(make_name_from_channel(channel), version), <<"recorded">>)

\* a DIST line that names the distfile of no version of the package
ForeignLine ==
    DistLine(<<"p", "a", "t", "c", "h", "e", "s", ".", "t", "a", "r">>, <<"recorded">>)

\* the lines a Manifest of the channel is made of
Lines(channel) ==
    {RecordedLine(channel, v) : v \in Range(ManifestVersions)} \cup {ForeignLine, OtherLine}

\* the Manifests of a channel with a DIST line for each version of any set of
\* versions, and those with the first of these lines written twice
Ledgers(channel) ==
    LET all == [i \in 1..Len(ManifestVersions) |-> RecordedLine(channel, ManifestVersions[i])]
        plain == {SelectSeq(all, LAMBDA l : l \in S) : S \in SUBSET Range(all)}
    IN plain \cup {Append(m, m[1]) : m \in plain \ {<<>>}}

\* a directory at rest: two recipes and their DIST lines
RestVersions == {V10, V11}

RestLedger(channel) == <<RecordedLine(channel, V10), RecordedLine(channel, V11)>>

\* the repositories in which one directory is in any state and the others at rest
InitRepo ==
    \E channel \in Channels, T \in SUBSET FileVersions :
        \E m \in Ledgers(channel) :
            /\ files = [c \in Channels |->
                           IF c = channel THEN DirOf(c, T) ELSE DirOf(c, RestVersions)]
            /\ manifest = [c \in Channels |-> IF c = channel THEN m ELSE RestLedger(c)]

\* the repository with every directory at rest
InitRepoAtRest ==
    /\ files = [c \in Channels |-> DirOf(c, RestVersions)]
    /\ manifest = [c \in Channels |-> RestLedger(c)]

\* what every run starts with
InitLocals ==
    /\ run = 1
    /\ err = ""
    /\ start = <<[files |-> files, manifest |-> manifest]>>
    /\ outcome = <<>>
    /\ rel = NoRel
    /\ new_releases = <<>>
    /\ new_ebuilds = [c \in Channels |-> <<>>]
    /\ channels = <<>>
    /\ pr = NoPrune
    /\ pruned_ebuilds = [c \in Channels |-> <<>>]

NoCodec == [channel |-> "", versions |-> <<>>, paths |-> <<>>, extracted |-> <<>>, keys |-> <<>>]

NoEnv == [feed |-> [releases |-> <<>>, cycle |-> FALSE], jobs |-> <<>>]

Invocation(kind) == [kind |-> kind, dir |-> "", successful_channels_only |-> FALSE]

\* update_manifest(ebuild_dir, name) called on one directory whose files and
\* Manifest are in any state
InitManifest ==
    /\ \E channel \in Channels, T \in SUBSET FileVersions :
          \E m \in BoundedSeq(Lines(channel), MaxLines) :
              /\ files = [c \in Channels |->
                             IF c = channel THEN DirOf(c, T) ELSE DirOf(c, RestVersions)]
              /\ manifest = [c \in Channels |-> IF c = channel THEN m ELSE RestLedger(c)]
              /\ op = [Invocation("update_manifest") EXCEPT !.dir = channel]
    /\ env = NoEnv
    /\ InitLocals
    /\ pc = "update_manifest"
    /\ um = Call_update_manifest(op.dir, make_name_from_channel(op.dir), "done")
    /\ codec = NoCodec

NextManifest == update_manifest

SpecManifest == InitManifest /\ [][NextManifest]_vars

NextManifestTwice == update_manifest \/ update_manifest_again

SpecManifestTwice == InitManifest /\ [][NextManifestTwice]_vars

----------------------------------------------------------------------------
(* prune_ebuilds invoked *)

\* the longest list of jobs the run of the workflow has
MaxJobs == 2

\* the path of the recipe of a channel and version, relative to the repository
EBUILD_FILE_PATH(name, version) ==
    <<"w", "w", "w", "-", "c", "l", "i", "e", "n", "t", "/">> \o name \o <<"/">>
        \o EBUILD_FILE(name, version)

\* the jobs that test a recipe of a channel, with the conclusion the API reports
Jobs ==
    {[name |-> JobName(EBUILD_FILE_PATH(make_name_from_channel(c), v), ChannelText(c)),
      conclusion |-> k] :
        c \in Channels, v \in {V10, V11}, k \in {"success", "failure"}}
    \cup {[name |-> JobName(EBUILD_FILE_PATH(make_name_from_channel("stable"), V11),
                            ChannelText("stable")),
           conclusion |-> "cancelled"]}

\* prune_ebuilds(successful_channels_only=False) on a repository with one
\* directory in any state, and prune_ebuilds(successful_channels_only=True)
\* for any jobs on a repository whose stable directory holds any recipes
InitPrune ==
    /\ \/ /\ InitRepo
          /\ op = Invocation("prune_ebuilds")
          /\ env = NoEnv
       \/ /\ \E T \in SUBSET FileVersions :
                /\ files = [c \in Channels |->
                               DirOf(c, IF c = "stable" THEN T ELSE RestVersions)]
                /\ manifest = [c \in Channels |-> RestLedger(c)]
          /\ op = [Invocation("prune_ebuilds") EXCEPT !.successful_channels_only = TRUE]
          /\ \E jobs \in BoundedSeq(Jobs, MaxJobs) : env = [NoEnv EXCEPT !.jobs = jobs]
    /\ InitLocals
    /\ um = NoFrame
    /\ codec = NoCodec
    /\ pc = "prune_ebuilds"

NextPrune == prune_ebuilds \/ update_manifest

SpecPrune == InitPrune /\ [][NextPrune]_vars

----------------------------------------------------------------------------
(* update_ebuilds invoked *)

\* the longest feed, in releases
MaxFeed == 4

\* the release the feed lists for a channel and version, with its assets
Release(channel, version, assets) ==
    [name |-> TitleOf(channel) \o version,
     tag_name |-> <<"v">> \o version,
     assets |-> assets]

\* the release of a channel and version that publishes the channel's source file
Published(channel, version) ==
    Release(channel, version, {BRAVE_SOURCE_FILE(make_name_from_channel(channel), version)})

\* the releases a feed is made of: published releases, and a stable release
\* whose only asset is the source file of another package
FeedReleases ==
    {Published("stable", V11), Published("stable", V12),
     Release("stable", V12, {BRAVE_SOURCE_FILE(make_name_from_channel("beta"), V12)}),
     Published("beta", V12), Published("nightly", V12)}

\* update_ebuilds on a repository at rest for any feed, and on a repository
\* with one directory in any state for the feeds of one published release a channel
InitUpdate ==
    /\ \/ /\ InitRepoAtRest
          /\ \E releases \in BoundedSeq(FeedReleases, MaxFeed), cycle \in BOOLEAN :
                env = [NoEnv EXCEPT !.feed = [releases |-> releases, cycle |-> cycle]]
       \/ /\ InitRepo
          /\ \E v \in [Channels -> FeedVersions] :
                env = [NoEnv EXCEPT !.feed =
                          [releases |-> [i \in 1..Len(CHANNELS) |->
                                            Published(CHANNELS[i], v[CHANNELS[i]])],
                           cycle |-> FALSE]]
    /\ op = Invocation("update_ebuilds")
    /\ InitLocals
    /\ um = NoFrame
    /\ codec = NoCodec
    /\ pc = "update_ebuilds"

NextUpdate == update_ebuilds \/ update_manifest

SpecUpdate == InitUpdate /\ [][NextUpdate]_vars

\* the versions the releases of a feed with revisions are tagged with
RevisionFeedVersions == {V11r1, V12}

\* update_ebuilds on a repository with one directory in any state, for the
\* feeds of one published release a channel that tag releases with a revision,
\* and on a repository at rest for the feed of one such release
InitUpdateRevision ==
    /\ \/ /\ InitRepo
          /\ \E v \in [Channels -> RevisionFeedVersions] :
                env = [NoEnv EXCEPT !.feed =
                          [releases |-> [i \in 1..Len(CHANNELS) |->
                                            Published(CHANNELS[i], v[CHANNELS[i]])],
                           cycle |-> FALSE]]
       \/ /\ InitRepoAtRest
          /\ env = [NoEnv EXCEPT !.feed =
                       [releases |-> <<Published("stable", V11r1)>>, cycle |-> FALSE]]
    /\ op = Invocation("update_ebuilds")
    /\ InitLocals
    /\ um = NoFrame
    /\ codec = NoCodec
    /\ pc = "update_ebuilds"

SpecUpdateRevision == InitUpdateRevision /\ [][NextUpdate]_vars

----------------------------------------------------------------------------
(* get_latest_releases called *)

\* get_latest_releases() for any feed, each gh_get answering or raising
InitReleases ==
    /\ InitRepoAtRest
    /\ \E releases \in BoundedSeq(FeedReleases, MaxFeed), cycle \in BOOLEAN :
          env = [NoEnv EXCEPT !.feed = [releases |-> releases, cycle |-> cycle]]
    /\ op = Invocation("get_latest_releases")
    /\ InitLocals
    /\ um = NoFrame
    /\ codec = NoCodec
    /\ pc = "update_ebuilds"

NextReleases == get_latest_releases

\* the interpreter goes on to the next statement as long as there is one
SpecReleases == InitReleases /\ [][NextReleases]_vars /\ WF_vars(NextReleases)

----------------------------------------------------------------------------
(* add_ebuilds_for_new_releases called *)

\* the versions new_releases names
AddVersions == {V10, V11r1, V12}

\* add_ebuilds_for_new_releases(new_releases) for the mappings of one channel
\* or two, on a repository in which the directory of the first is in any state
InitAdd ==
    /\ \E channel \in Channels, T \in SUBSET FileVersions :
          \E m \in Ledgers(channel), version \in AddVersions :
              /\ files = [c \in Channels |->
                             IF c = channel THEN DirOf(c, T) ELSE DirOf(c, RestVersions)]
              /\ manifest = [c \in Channels |-> IF c = channel THEN m ELSE RestLedger(c)]
              /\ \/ new_releases = << <<channel, version>> >>
                 \/ \E other \in Channels \ {channel} :
                       new_releases = << <<channel, version>>, <<other, V12>> >>
    /\ op = Invocation("add_ebuilds_for_new_releases")
    /\ env = NoEnv
    /\ run = 1
    /\ err = ""
    /\ start = <<[files |-> files, manifest |-> manifest]>>
    /\ outcome = <<>>
    /\ um = NoFrame
    /\ codec = NoCodec
    /\ rel = NoRel
    /\ new_ebuilds = [c \in Channels |-> <<>>]
    /\ channels = <<>>
    /\ pr = NoPrune
    /\ pruned_ebuilds = [c \in Channels |-> <<>>]
    /\ pc = "add_loop"

NextAdd == add_ebuilds_for_new_releases \/ update_manifest

SpecAdd == InitAdd /\ [][NextAdd]_vars

----------------------------------------------------------------------------
(* extract_version and version_key called on the paths of recipes *)

\* the most dot-separated components a version has
MaxParts == 2

\* the texts of the numeric components of a version
Components == {<<"1">>, <<"1", "0">>}

\* the sequences of one to n components
ComponentSeqs(n) == UNION {[1..k -> Components] : k \in 1..n}

\* the revisions of a version: none, -r0 and -r1
Revisions == {<<>>, <<"0">>, <<"1">>}

\* the versions: their numeric components and their revision
CodecVersions == [parts : ComponentSeqs(MaxParts), revision : Revisions]

\* the components of a version joined with dots
RECURSIVE Join(_)
Join(parts) ==
    IF Len(parts) = 1 THEN parts[1]
    ELSE Join(SubSeq(parts, 1, Len(parts) - 1)) \o <<".">> \o parts[Len(parts)]

\* the text of a version: its components and, when it has one, -r and its revision
VersionText(v) ==
    Join(v.parts) \o (IF v.revision = <<>> THEN <<>> ELSE <<"-", "r">> \o v.revision)

\* the paths of the recipes of the versions are formatted with EBUILD_FILE_PATH
format_ebuild_paths ==
    /\ pc = "format"
    /\ pc' = "extract_version"
    /\ codec' = [codec EXCEPT !.paths =
                     [i \in 1..Len(codec.versions) |->
                         EBUILD_FILE_PATH(make_name_from_channel(codec.channel),
                                          VersionText(codec.versions[i]))]]
    /\ UNCHANGED <<files, manifest, op, env, run, start, outcome, err, um, updVars, pruneVars>>

\* extract_version is called on each path; Raised stands where it raises ValueError
call_extract_version ==
    /\ pc = "extract_version"
    /\ pc' = "version_key"
    /\ codec' = [codec EXCEPT !.extracted =
                     [i \in 1..Len(codec.paths) |-> extract_version(codec.paths[i])]]
    /\ UNCHANGED <<files, manifest, op, env, run, start, outcome, err, um, updVars, pruneVars>>

\* version_key is called on each path; Raised stands where it raises ValueError
call_version_key ==
    /\ pc = "version_key"
    /\ pc' = "done"
    /\ codec' = [codec EXCEPT !.keys =
                     [i \in 1..Len(codec.paths) |-> version_key(codec.paths[i])]]
    /\ UNCHANGED <<files, manifest, op, env, run, start, outcome, err, um, updVars, pruneVars>>

\* the codec called for three versions of a channel
InitCodec ==
    /\ InitRepoAtRest
    /\ op = Invocation("version_key")
    /\ env = NoEnv
    /\ InitLocals
    /\ um = NoFrame
    /\ \E channel \in Channels, versions \in [1..3 -> CodecVersions] :
          codec = [NoCodec EXCEPT !.channel = channel, !.versions = versions]
    /\ pc = "format"

NextCodec == format_ebuild_paths \/ call_extract_version \/ call_version_key

SpecCodec == InitCodec /\ [][NextCodec]_vars

----------------------------------------------------------------------------
(* Any of the entry points invoked *)

Init == InitManifest \/ InitPrune \/ InitUpdate \/ InitAdd

Next == update_ebuilds \/ prune_ebuilds \/ update_manifest \/ update_manifest_again

Spec == Init /\ [][Next]_vars

----------------------------------------------------------------------------
(* Notions the properties are stated with *)

\* the version a distfile name of a package names, Raised when it is not of
\* the form <name>_<version>_amd64.deb
DistVersion(name, file) ==
    LET head == name \o <<"_">>
        rest == <<"_", "a", "m", "d", "6", "4", ".", "d", "e", "b">>
    IN IF StartsWith(file, head) /\ EndsWith(file, rest) /\ Len(file) > Len(head) + Len(rest)
       THEN SubSeq(file, Len(head) + 1, Len(file) - Len(rest))
       ELSE Raised

\* the versions the DIST lines of a sequence of lines name, line by line
DistVersionsSeq(channel, lines) ==
    LET dist == SelectSeq(lines, LAMBDA l : l.kind = "DIST")
    IN [i \in 1..Len(dist) |-> DistVersion(make_name_from_channel(channel), dist[i].file)]

\* the call of update_manifest on a directory has just returned to its caller
Returned(dir) == um.dir = dir /\ pc = um.ret

----------------------------------------------------------------------------
(* Properties of update_manifest *)

\* C1: after update_manifest returns successfully, the set of versions named
\* by the DIST lines of the Manifest equals the set of versions extracted from
\* the *.ebuild files of the directory, whatever the Manifest held before.
C1_ManifestVersionsEqualRecipeVersions ==
    \A c \in Channels :
        Returned(c) => Range(DistVersionsSeq(c, manifest[c])) = DirVersions(c)

\* C1 witness: update_manifest has returned on a directory whose Manifest
\* started with a DIST line for a version without recipe and lacked the line
\* of a version with a recipe.
C1_Witness ==
    \E c \in Channels :
        /\ Returned(c)
        /\ Range(DistVersionsSeq(c, start[1].manifest[c])) \ DirVersions(c) /= {}
        /\ DirVersions(c) \ Range(DistVersionsSeq(c, start[1].manifest[c])) /= {}

\* C4: when a download fails during update_manifest the call ends in an error
\* and the Manifest is what it was before the call; the Manifest is not
\* written while entries are still being computed.
C4_FailedDownloadLeavesManifest ==
    /\ err = "RequestException" => pc = "error" /\ manifest = start[1].manifest
    /\ pc = "um_fetch" => manifest = start[1].manifest

\* C4 witness: a download has failed after an earlier download of the same
\* call succeeded.
C4_Witness ==
    /\ err = "RequestException"
    /\ \E i \in 1..Len(um.new_lines) : um.new_lines[i].sums /= <<"recorded">>
    /\ um.pending /= {}

\* C12: after update_manifest returns successfully the Manifest holds exactly
\* one DIST line for each version with a recipe, whatever the Manifest held
\* before, DIST lines naming the same distfile twice included.
C12_OneDistLinePerVersion ==
    \A c \in Channels :
        Returned(c) =>
            LET entries == DistVersionsSeq(c, manifest[c])
            IN \A v \in DirVersions(c) :
                   Cardinality({i \in 1..Len(entries) : entries[i] = v}) = 1

\* C17: update_manifest writes back unchanged, and in their order in the
\* Manifest it read, every line that is not a DIST line and every DIST line
\* that names the distfile of a version with a recipe.
C17_KeptLinesPassThrough ==
    \A c \in Channels :
        Returned(c) =>
            LET old == start[1].manifest[c]
                live == {BRAVE_SOURCE_FILE(make_name_from_channel(c), v) : v \in DirVersions(c)}
                kept == SelectSeq(old, LAMBDA l : l.kind /= "DIST" \/ l.file \in live)
            IN SelectSeq(manifest[c], LAMBDA l : l \in Range(old)) = kept

\* C17 witness: update_manifest has returned on a Manifest that held the DIST
\* line of a recipe followed by a line that is not a DIST line, and has
\* appended a line.
C17_Witness ==
    \E c \in Channels :
        /\ Returned(c)
        /\ Len(start[1].manifest[c]) = 2
        /\ start[1].manifest[c][1].kind = "DIST"
        /\ start[1].manifest[c][1] \in Range(manifest[c])
        /\ start[1].manifest[c][2] = OtherLine
        /\ Len(manifest[c]) > 2

\* C18: the Manifest update_manifest writes is deterministic: a second call
\* on the same recipes and the same Manifest, the downloads being the same,
\* writes the same sequence of lines as the first.
C18_SameManifestOnSecondCall ==
    (op.kind = "update_manifest" /\ run = 2 /\ pc = "done") =>
        manifest = outcome[1].manifest

\* a statement of update_manifest is the next to run
InManifestCall == pc \in {"update_manifest", "um_fetch"}

\* some recipe file of the state is not a file of the next state
RecipeRemoved == \E c \in Channels : \E f \in DOMAIN files[c] : f \notin DOMAIN files'[c]

\* C21: update_manifest never creates, deletes or modifies a recipe file: no
\* step of a call, whether the call goes on to return or to raise, changes
\* the set of recipe files of any directory or what a file holds; a step that
\* removes a recipe file is a step of the loop of prune_ebuilds.
C21_ManifestCallKeepsRecipes ==
    [][/\ InManifestCall => files' = files
       /\ RecipeRemoved => (pc = "prune_unlink" /\ op.kind = "prune_ebuilds")]_vars

\* C21 witness: update_manifest, called on its own on a directory of three
\* recipes, has returned after writing a Manifest that differs from the one
\* it read in the lines it dropped and in the lines it appended.
C21_Witness ==
    /\ op.kind = "update_manifest"
    /\ Returned(op.dir)
    /\ Cardinality(DOMAIN files[op.dir]) = 3
    /\ Range(start[1].manifest[op.dir]) \ Range(manifest[op.dir]) /= {}
    /\ Range(manifest[op.dir]) \ Range(start[1].manifest[op.dir]) /= {}

----------------------------------------------------------------------------
(* Properties of prune_ebuilds *)

\* the channels prune_ebuilds visits in this invocation
Eligible == Range(eligible_channels(op.successful_channels_only, env.jobs))

\* C2: a channel that holds at least one recipe when prune_ebuilds starts
\* holds at least one recipe in every state during and after prune_ebuilds,
\* gated on test results or not.
C2_PruneNeverEmptiesChannel ==
    \A c \in Channels :
        DOMAIN start[1].files[c] /= {} => DOMAIN files[c] /= {}

\* C2 witness: a gated prune has completed on a channel that started with
\* three recipes and now holds one.
C2_Witness ==
    /\ pc = "done"
    /\ op.kind = "prune_ebuilds"
    /\ op.successful_channels_only
    /\ \E c \in Channels :
          /\ Cardinality(DOMAIN start[1].files[c]) = 3
          /\ Cardinality(DOMAIN files[c]) = 1

\* C3: after prune_ebuilds completes, an eligible channel that held more than
\* one recipe holds exactly one, the one that was greatest under version_key;
\* every other recipe is removed and reported as dropped, and the Manifest of
\* the channel holds exactly one DIST entry.
C3_PruneKeepsNewestOnly ==
    (pc = "done" /\ op.kind = "prune_ebuilds") =>
        \A c \in Eligible \cap Channels :
            Cardinality(DOMAIN start[1].files[c]) > 1 =>
                /\ Cardinality(DOMAIN files[c]) = 1
                /\ \A e \in DOMAIN files[c] :
                      /\ e \in DOMAIN start[1].files[c]
                      /\ files[c][e] = start[1].files[c][e]
                      /\ \A f \in DOMAIN start[1].files[c] :
                            ~KeyLess(version_key(e), version_key(f))
                /\ Len(pruned_ebuilds[c]) = Cardinality(DOMAIN start[1].files[c]) - 1
                /\ \A f \in DOMAIN start[1].files[c] \ DOMAIN files[c] :
                      extract_version(f) \in Range(pruned_ebuilds[c])
                /\ Len(DistVersionsSeq(c, manifest[c])) = 1

\* C5: under gated pruning a recipe is deleted from a channel only when the
\* version that remains in the channel is the version whose test result for
\* the channel was "success".
C5_GatedPruneKeepsValidatedVersion ==
    (pc = "done" /\ op.kind = "prune_ebuilds" /\ op.successful_channels_only) =>
        \A c \in Channels :
            files[c] /= start[1].files[c] =>
                LET test_results == collect_test_results(env.jobs)
                IN \E i \in 1..Len(test_results) :
                      /\ test_results[i].channel = c
                      /\ test_results[i].conclusion = "success"
                      /\ DirVersions(c) = {test_results[i].version}

\* C11: when pruning is gated on test results, a channel whose collected test
\* result is not "success", or that has no test result, keeps its recipe files
\* and its Manifest unchanged in every state of prune_ebuilds, however many
\* recipes it holds.
C11_UnvalidatedChannelUntouched ==
    (op.kind = "prune_ebuilds" /\ op.successful_channels_only) =>
        LET test_results == collect_test_results(env.jobs)
        IN \A c \in Channels :
               (\A i \in 1..Len(test_results) :
                    test_results[i].channel = c => test_results[i].conclusion /= "success")
               => /\ files[c] = start[1].files[c]
                  /\ manifest[c] = start[1].manifest[c]

\* C11 witness: a gated prune has completed and pruned a channel, while the
\* stable channel, whose test failed, holds three recipes.
C11_Witness ==
    /\ pc = "done"
    /\ op.kind = "prune_ebuilds"
    /\ op.successful_channels_only
    /\ \E i \in 1..Len(env.jobs) :
          /\ JOB_NAME_RE_match(env.jobs[i].name) /= Raised
          /\ JOB_NAME_RE_match(env.jobs[i].name)[2] = ChannelText("stable")
          /\ env.jobs[i].conclusion = "failure"
    /\ Cardinality(DOMAIN files["stable"]) = 3
    /\ \E c \in Channels : files[c] /= start[1].files[c]

----------------------------------------------------------------------------
(* Properties of update_ebuilds *)

C7_ResolvedFromTitleAndAsset ==
    \A c \in Channels :
        rel.releases[c] /= None =>
            \E i \in 1..Len(env.feed.releases) :
                LET release == env.feed.releases[i]
                IN /\ StartsWith(release.name, TitleOf(c))
                   /\ release.tag_name = <<"v">> \o rel.releases[c]
                   /\ BRAVE_SOURCE_FILE(make_name_from_channel(c), rel.releases[c])
                          \in release.assets

\* C7 witness: every channel is resolved from a feed whose first entry is a
\* stable release of 1.2 without the stable distributable, and stable is
\* resolved to the 1.1 of a later entry.
C7_Witness ==
    /\ pc = "resolved"
    /\ Len(env.feed.releases) > 0
    /\ LET first == env.feed.releases[1]
       IN /\ StartsWith(first.name, TitleOf("stable"))
          /\ first.tag_name = <<"v">> \o V12
          /\ BRAVE_SOURCE_FILE(make_name_from_channel("stable"), V12) \notin first.assets
    /\ rel.releases["stable"] = V11

\* C8: when the feed is exhausted or the page limit reached before every
\* channel is resolved, get_latest_releases raises and update_ebuilds ends in
\* that error with every recipe file and every Manifest as the run found
\* them; the steps after get_latest_releases run only with every channel resolved.
C8_IncompleteFeedChangesNothing ==
    /\ err = "RuntimeError" =>
          /\ pc = "error"
          /\ files = start[run].files
          /\ manifest = start[run].manifest
    /\ pc \in {"resolved", "add_loop", "update_manifest", "um_fetch", "add_commit", "done"} =>
          \A c \in Channels : rel.releases[c] /= None

\* C8 witness: get_latest_releases has raised at the page limit, the feed
\* linking to a further page, with some of the channels resolved.
C8_Witness ==
    /\ err = "RuntimeError"
    /\ rel.page = MAX_PAGES
    /\ rel.url /= 0
    /\ rel.releases_found > 0

\* C9: when an update or a prune completes, in every channel directory the
\* DIST entries of the Manifest correspond one to one to the versions with a
\* recipe, whatever state the directory was in when the operation started.
C9_ManifestMatchesRecipesWhenDone ==
    (pc = "done" /\ op.kind \in {"update_ebuilds", "prune_ebuilds"}) =>
        \A c \in Channels :
            LET entries == DistVersionsSeq(c, manifest[c])
            IN /\ Range(entries) = DirVersions(c)
               /\ \A i, j \in 1..Len(entries) : entries[i] = entries[j] => i = j

\* C20: after update_ebuilds completes, every channel has a recipe for the
\* version resolved from the feed; where that version was absent exactly one
\* file was created, holding what the recipe newest under version_key before
\* the update held; no recipe file that existed before is removed or changed.
\* A channel has a recipe for a version when a file is named for it or
\* extract_version returns it for a file; it is absent when neither is so.
C20_UpdateAddsCopyOfNewest ==
    (pc = "done" /\ op.kind = "update_ebuilds") =>
        \A c \in Channels :
            LET before == start[run].files[c]
                version == rel.releases[c]
                new_ebuild == EBUILD_FILE(make_name_from_channel(c), version)
                absent == /\ version \notin {extract_version(e) : e \in DOMAIN before}
                          /\ new_ebuild \notin DOMAIN before
            IN /\ version \in DirVersions(c) \/ new_ebuild \in DOMAIN files[c]
               /\ \A f \in DOMAIN before :
                     f \in DOMAIN files[c] /\ files[c][f] = before[f]
               /\ absent =>
                     /\ DOMAIN files[c] \ DOMAIN before = {new_ebuild}
                     /\ \E e \in DOMAIN before :
                           /\ \A f \in DOMAIN before :
                                 ~KeyLess(version_key(e), version_key(f))
                           /\ files[c][new_ebuild] = before[e]

\* the version a recipe file of a package is named for, Raised when the file
\* is not of the form <name>-<version>.ebuild
NamedVersion(name, file) ==
    LET head == name \o <<"-">>
    IN IF StartsWith(file, head) /\ EndsWith(file, EBUILD_EXT)
             /\ Len(file) > Len(head) + Len(EBUILD_EXT)
       THEN SubSeq(file, Len(head) + 1, Len(file) - Len(EBUILD_EXT))
       ELSE Raised

\* a directory holds a recipe whose version has no Manifest entry: no DIST
\* line names the distfile of the version the file is named for, nor that of
\* the version extract_version returns for it
Unreconciled(c, fs, m) ==
    LET name == make_name_from_channel(c)
    IN \E e \in DOMAIN fs[c] :
           /\ BRAVE_SOURCE_FILE(name, NamedVersion(name, e)) \notin DistFiles(m[c])
           /\ BRAVE_SOURCE_FILE(name, extract_version(e)) \notin DistFiles(m[c])

\* C23: in update_ebuilds a step that changes recipe files changes those of
\* one channel and is followed at once by update_manifest on the directory
\* of that channel; at the head of the loop over new_releases update_manifest
\* has returned for every channel whose recipe files the run has changed; so
\* when no directory holds a recipe without Manifest entry as the run starts,
\* at most one directory holds one in any state of the run, the state a
\* failure leaves included.
C23_AddThenReconcileChannelByChannel ==
    /\ [][(op.kind = "update_ebuilds" /\ files' /= files) =>
              /\ pc' = "update_manifest"
              /\ um'.ret = "add_commit"
              /\ \A c \in Channels : files'[c] /= files[c] <=> c = um'.dir]_vars
    /\ []((op.kind = "update_ebuilds" /\ pc = "add_loop") =>
             \A c \in Channels :
                 files[c] /= start[run].files[c] => new_ebuilds[c] /= <<>>)
    /\ [](op.kind = "update_ebuilds" =>
             \/ Cardinality({c \in Channels : Unreconciled(c, files, manifest)}) <= 1
             \/ \E c \in Channels : Unreconciled(c, start[run].files, start[run].manifest))

\* C23 witness: an update that started with no recipe without Manifest entry
\* has ended in the failure of a download for the second channel it added a
\* recipe to, the Manifest of the first being reconciled; the directory of
\* the second is the one that holds a recipe without entry.
C23_Witness ==
    /\ op.kind = "update_ebuilds"
    /\ pc = "error"
    /\ err = "RequestException"
    /\ \A c \in Channels : ~Unreconciled(c, start[run].files, start[run].manifest)
    /\ \E c \in Channels : new_ebuilds[c] /= <<>> /\ manifest[c] /= start[run].manifest[c]
    /\ Len(new_releases) > 0
    /\ {c \in Channels : Unreconciled(c, files, manifest)} = {Head(new_releases)[1]}

----------------------------------------------------------------------------
(* Properties of add_ebuilds_for_new_releases *)

\* C10: adding a recipe for a channel and version that has a recipe file
\* fails with an error, and no recipe file that exists when
\* add_ebuilds_for_new_releases is called is overwritten.
C10_AddNeverOverwrites ==
    /\ \A c \in Channels :
          \A f \in DOMAIN start[1].files[c] :
              f \in DOMAIN files[c] /\ files[c][f] = start[1].files[c][f]
    /\ pc = "add_commit" =>
          EBUILD_FILE(make_name_from_channel(Head(new_releases)[1]), Head(new_releases)[2])
              \notin DOMAIN start[1].files[Head(new_releases)[1]]

----------------------------------------------------------------------------
(* Properties of version_key and extract_version *)

\* the numeric components of a version, as numbers
Numbers(v) == [i \in 1..Len(v.parts) |-> ToInt(v.parts[i])]

\* the revision of a version, 0 when it has no -r suffix
Revision(v) == IF v.revision = <<>> THEN 0 ELSE ToInt(v.revision)

\* version_key has been called on the paths of the versions
Keyed == pc = "done" /\ op.kind = "version_key"

\* C13: of two recipe filenames whose versions have the same numeric
\* components, version_key orders the one with the higher revision greater; a
\* version without -r suffix is ordered as revision 0, below X-r1 and equal to X-r0.
C13_HigherRevisionOrdersGreater ==
    Keyed =>
        \A i, j \in 1..Len(codec.versions) :
            Numbers(codec.versions[i]) = Numbers(codec.versions[j]) =>
                /\ codec.keys[i] /= Raised
                /\ codec.keys[j] /= Raised
                /\ Revision(codec.versions[i]) < Revision(codec.versions[j])
                       => KeyLess(codec.keys[i], codec.keys[j])
                /\ Revision(codec.versions[i]) = Revision(codec.versions[j])
                       => codec.keys[i] = codec.keys[j]

\* a is a proper prefix of b
IsProperPrefix(a, b) == Len(a) < Len(b) /\ SubSeq(b, 1, Len(a)) = a

\* C14: of two versions where the numeric components of one are a proper
\* prefix of those of the other, version_key orders the shorter one as less,
\* whatever the revisions of the two are.
C14_PrefixOrdersLess ==
    Keyed =>
        \A i, j \in 1..Len(codec.versions) :
            IsProperPrefix(Numbers(codec.versions[i]), Numbers(codec.versions[j])) =>
                /\ codec.keys[i] /= Raised
                /\ codec.keys[j] /= Raised
                /\ KeyLess(codec.keys[i], codec.keys[j])

\* C15: version_key defines a total order on versions: of any two versions
\* exactly one of a < b, a = b, b < a holds, the order is transitive, and two
\* versions have the same key only when their numeric components and their
\* revisions match.
C15_KeyIsTotalOrder ==
    Keyed =>
        LET n == Len(codec.versions)
            k == codec.keys
        IN /\ \A i \in 1..n : k[i] /= Raised
           /\ \A i, j \in 1..n :
                 /\ KeyLess(k[i], k[j]) \/ k[i] = k[j] \/ KeyLess(k[j], k[i])
                 /\ ~(KeyLess(k[i], k[j]) /\ k[i] = k[j])
                 /\ ~(KeyLess(k[i], k[j]) /\ KeyLess(k[j], k[i]))
           /\ \A i, j, l \in 1..n :
                 (KeyLess(k[i], k[j]) /\ KeyLess(k[j], k[l])) => KeyLess(k[i], k[l])
           /\ \A i, j \in 1..n :
                 k[i] = k[j] =>
                     /\ Numbers(codec.versions[i]) = Numbers(codec.versions[j])
                     /\ Revision(codec.versions[i]) = Revision(codec.versions[j])

\* C16: for every channel and every version of one or more dot-separated
\* numbers with or without a -r suffix, extract_version called on the recipe
\* filename formatted for the version returns the text of the version.
C16_ExtractVersionRoundTrip ==
    (op.kind = "version_key" /\ pc \in {"version_key", "done"}) =>
        \A i \in 1..Len(codec.versions) :
            codec.extracted[i] = VersionText(codec.versions[i])

----------------------------------------------------------------------------
(* Properties of get_latest_releases *)

\* get_latest_releases has returned the releases or raised
ReleasesEnded == pc \in {"resolved", "error"}

\* the pages get_latest_releases has fetched
PagesFetched == IF pc = "scan" THEN rel.page + 1 ELSE rel.page

\* the url of the k-th page get_latest_releases fetches
RECURSIVE VisitedPage(_)
VisitedPage(k) == IF k = 1 THEN BRAVE_RELEASES ELSE NextLink(VisitedPage(k - 1))

\* the releases of the first n pages fetched, in the order of the feed
RECURSIVE PagesReleases(_)
PagesReleases(n) ==
    IF n = 0 THEN <<>> ELSE PagesReleases(n - 1) \o PageReleases(VisitedPage(n))

\* the releases the loop over response.json() has taken so far, page after
\* page: those of the pages scanned to their end and, of the page being
\* scanned, those before the next to take
Examined ==
    IF pc \in {"scan", "resolved"}
    THEN PagesReleases(rel.page) \o SubSeq(PageReleases(rel.response), 1, rel.i - 1)
    ELSE PagesReleases(rel.page)

\* the places in a sequence of releases of those that pass the title and
\* asset tests of a channel
Passing(c, releases) == {j \in 1..Len(releases) : accepts(releases[j], c, TitleOf(c))}

\* every channel has its release
AllResolved == \A c \in Channels : rel.releases[c] /= None

\* C22: in get_latest_releases the version resolved for a channel is that of
\* the first entry, in the order of the feed across its pages, that passes the
\* title and asset tests of the channel, and a channel no entry taken so far
\* passes for is unresolved; without a cycle of links the entries taken are
\* the head of the feed; no step changes the version of a resolved channel;
\* the entry taken last when every channel is resolved is the one that
\* resolved the last channel, and from then on no entry is taken and no page
\* fetched.
C22_FirstPassingEntryWins ==
    /\ [](pc \in {"fetch", "scan", "resolved"} =>
             /\ \A c \in Channels :
                   LET P == Passing(c, Examined)
                   IN rel.releases[c] =
                          IF P = {} THEN None ELSE Tail(Examined[Min(P)].tag_name)
             /\ ~env.feed.cycle =>
                   Examined = SubSeq(env.feed.releases, 1, Len(Examined)))
    /\ [](pc = "resolved" =>
             /\ AllResolved
             /\ \E c \in Channels : Min(Passing(c, Examined)) = Len(Examined))
    /\ [][\A c \in Channels :
              rel.releases[c] /= None => rel'.releases[c] = rel.releases[c]]_vars
    /\ [][AllResolved => rel' = rel]_vars

\* C22 witness: get_latest_releases has returned after the first entry of the
\* second page resolved the last channel, with stable resolved to the version
\* of an entry of the first page and a later entry of the feed, not taken,
\* passing the tests of stable with another version.
C22_Witness ==
    /\ pc = "resolved"
    /\ rel.page = 1
    /\ rel.i = 2
    /\ Len(Examined) < Len(env.feed.releases)
    /\ \E j \in (Len(Examined) + 1)..Len(env.feed.releases) :
          /\ accepts(env.feed.releases[j], "stable", TitleOf("stable"))
          /\ Tail(env.feed.releases[j].tag_name) /= rel.releases["stable"]

\* C19: get_latest_releases terminates for every feed, also one whose links
\* to the next page form a cycle: it fetches at most MAX_PAGES pages and then
\* returns a version for every channel or raises an error.
C19_ReleasesTerminate ==
    /\ [](PagesFetched <= MAX_PAGES)
    /\ [](pc = "resolved" => \A c \in Channels : rel.releases[c] /= None)
    /\ <>ReleasesEnded

\* C19 witness: get_latest_releases has raised after MAX_PAGES pages of a
\* feed whose links form a cycle and whose releases resolve no channel.
C19_Witness ==
    /\ pc = "error"
    /\ err = "RuntimeError"
    /\ env.feed.cycle
    /\ Len(env.feed.releases) > 0
    /\ rel.page = MAX_PAGES
    /\ rel.releases_found = 0

====
